---- MODULE Spec2Model ----
(***************************************************************************)
(* Model of katsdpcontroller/sensor_proxy.py.                              *)
(*                                                                         *)
(* Spec          : SensorWatcher, the mirror of upstream katcp sensors     *)
(*                 into server.sensors (destination registry) and          *)
(*                 orig_sensors (shadow registry).                         *)
(* SpecObserver  : PrometheusObserver, one sensor bound to one Gauge,      *)
(*                 Counter or Histogram series plus its status series.     *)
(*                                                                         *)
(* Sensor objects live in a heap, because the three registries of the      *)
(* mirror hold references to the same aiokatcp.Sensor objects: a           *)
(* set_value through one registry is seen through the others.              *)
(***************************************************************************)
EXTENDS Integers, Sequences, FiniteSets, TLC

VARIABLES
    \* ---- SensorWatcher ----
    cfg,             \* constructor arguments: renames, close_action, _filter, rewrite_gui_urls
    device,          \* names of the upstream sensors that currently exist on the device
    sensors,         \* self.sensors (aiokatcp.SensorWatcher): name -> object id
    orig_sensors,    \* self.orig_sensors: name -> object id
    server_sensors,  \* self.server.sensors: name -> object id
    heap,            \* object id -> aiokatcp.Sensor
    _need_notify,     \* self._need_notify
    inBatch,         \* between batch_start and batch_stop of the collaborator
    connState,       \* last state given to state_updated
    synced,          \* self.synced (asyncio.Event) is set
    changed,         \* history: sensor_added or _sensor_removed ran since the last batch_stop
    lastStop,        \* history: what the last batch_stop did
    lastReading,     \* history: upstream name -> <<>> or <<latest reading delivered since its add>>
    \* ---- PrometheusObserver ----
    obs,             \* the observer's fields and its two series
    prev,            \* history: <<>> or <<the reading last given to __call__>>
    fed,             \* history: per reading given to __call__, its validity and numeric value
    applied,         \* history: per reading given to __call__, what was done to the value series
    \* ---- PrometheusWatcher ----
    phase,           \* per watcher: "unbuilt", "open" (constructed), "failed" (__init__ raised), "closed" (close was called)
    watched,         \* per watcher: self.sensors (aiokatcp.SensorSet): name -> sensor id
    callbacks,       \* per watcher: which of _added, _removed the SensorSet holds as callbacks
    objects,         \* sensor id -> the aiokatcp.Sensor, for the sensors in a SensorSet
    _observers,      \* per watcher: self._observers: name -> None or observer id
    observers,       \* observer id -> the PrometheusObserver, while attached or in a map
    _metrics,        \* PrometheusWatcher._metrics (shared): metric name -> class of the value series
    constructions,   \* history: metric name -> how often its series pair was constructed
    roots,           \* <<metric name, label values>> -> label instance held by the series pair
    children,        \* label instance id -> its value and status series
    created,         \* number of sensor objects created so far
    raised           \* history: the exception that left the last operation, or ""

mirrorVars == <<cfg, device, sensors, orig_sensors, server_sensors, heap, _need_notify,
                inBatch, connState, synced, changed, lastStop, lastReading>>
obsVars == <<obs, prev, fed, applied>>
watcherVars == <<phase, watched, callbacks, objects, _observers, observers, _metrics,
                 constructions, roots, children, created, raised>>
vars == <<mirrorVars, obsVars, watcherVars>>

-----------------------------------------------------------------------------
(* Bounds *)

\* upstream timestamps are 1..MaxTime; a local time.time() is written 0
MaxTime == 1
\* readings given to one observer
MaxReadings == 4
\* timestamps of the readings given to an observer are 1..MaxObsTime
MaxObsTime == 2
\* sensor objects created for the SensorSets of the metric watchers
MaxSensors == 2

-----------------------------------------------------------------------------
(* Generic helpers: dict operations *)

Put(f, k, v) == [x \in (DOMAIN f) \cup {k} |-> IF x = k THEN v ELSE f[x]]
Pop(f, k) == [x \in (DOMAIN f) \ {k} |-> f[x]]
EmptyMap == [x \in {} |-> x]
Range(s) == {s[i] : i \in DOMAIN s}

-----------------------------------------------------------------------------
(* The PrometheusWatcher instances and their state before any is constructed *)

\* two watchers, each over a SensorSet of its own, sharing the class-level
\* _metrics; the name of a watcher is also the value of its labels argument
Watchers == {"w1", "w2"}
\* the names of the sensors that come and go in each watcher's SensorSet
WatchedNames(w) == IF w = "w1" THEN {"s", "t"} ELSE {"s"}
MetricNames == {"katcp_Gauge", "katcp_Counter", "katcp_Histogram", "katcp_Summary"}

WatcherInit ==
    /\ phase = [w \in Watchers |-> "unbuilt"]
    /\ watched = [w \in Watchers |-> EmptyMap]
    /\ callbacks = [w \in Watchers |-> [add |-> FALSE, remove |-> FALSE]]
    /\ objects = EmptyMap
    /\ _observers = [w \in Watchers |-> EmptyMap]
    /\ observers = EmptyMap
    /\ _metrics = EmptyMap
    /\ constructions = [m \in MetricNames |-> 0]
    /\ roots = EmptyMap
    /\ children = EmptyMap
    /\ created = 0
    /\ raised = ""

-----------------------------------------------------------------------------
(* aiokatcp sensors: types, readings, objects *)

IntegerType == [type_name |-> "integer", domain |-> <<>>]
\* katcp "string" sensors have stype bytes
StringType == [type_name |-> "string", domain |-> <<>>]
DiscreteType(values) == [type_name |-> "discrete", domain |-> values]

\* aiokatcp.core.get_type(stype).default(stype)
TypeDefault(stype) ==
    CASE stype.type_name = "integer" -> 0
      [] stype.type_name = "string" -> ""
      [] stype.type_name = "discrete" -> stype.domain[1]

\* Values on the wire are byte strings
RawValues == {"0", "1", "ok", "fail", "degraded", "u1"}
RawInt == [r \in {"0", "1"} |-> IF r = "0" THEN 0 ELSE 1]

\* aiokatcp.core.decode(stype, raw) succeeds
Decodable(stype, raw) ==
    CASE stype.type_name = "integer" -> raw \in DOMAIN RawInt
      [] stype.type_name = "string" -> TRUE
      [] stype.type_name = "discrete" -> raw \in Range(stype.domain)

\* aiokatcp.core.decode(stype, raw)
Decode(stype, raw) ==
    CASE stype.type_name = "integer" -> RawInt[raw]
      [] stype.type_name = "string" -> raw
      [] stype.type_name = "discrete" -> raw

\* stype(b"fail") of a discrete sensor raises ValueError unless "fail" is in its domain
HasFailValue(stype) == "fail" \in Range(stype.domain)

Statuses == {"UNKNOWN", "NOMINAL", "WARN", "ERROR", "FAILURE", "UNREACHABLE", "INACTIVE"}
\* statuses the modelled device reports in sensor_updated
DeviceStatuses == {"NOMINAL", "UNREACHABLE"}
UpstreamTimes == 1 .. MaxTime

\* aiokatcp.Sensor(stype, name, description, units): default value, status
\* UNKNOWN, timestamp time.time()
NewSensor(stype, name) ==
    [stype |-> stype, name |-> name, value |-> TypeDefault(stype),
     status |-> "UNKNOWN", timestamp |-> 0]

\* aiokatcp.Sensor(stype, name, description, units, default, initial_status)
NewSensorWith(stype, name, value, status) ==
    [stype |-> stype, name |-> name, value |-> value,
     status |-> status, timestamp |-> 0]

\* sensor.set_value(value, status, timestamp) on the object id of heap h
SetValue(h, id, value, status, timestamp) ==
    [h EXCEPT ![id] = [@ EXCEPT !.value = value, !.status = status,
                                 !.timestamp = timestamp]]

\* Object ids: the sensor the base class creates for a destination name, the
\* copy sensor_added makes for a rewritten gui-urls value, and the server's
\* own sensor.
BaseObj(name) == <<name, "base">>
CloneObj(name) == <<name, "clone">>
OwnObj(name) == <<name, "own">>

-----------------------------------------------------------------------------
(* Names and configuration of the mirror *)

Upstream == {"x", "device-status", "gui-urls"}
Prefix == "p."
GuiUrlsSuffix == ".gui-urls"
\* the server's own sensor, not mirrored
OwnNames == {"local"}

\* str.endswith
EndsWith(s, suffix) ==
    /\ Len(s) >= Len(suffix)
    /\ SubSeq(s, Len(s) - Len(suffix) + 1, Len(s)) = suffix

\* the types with which the device may announce each sensor
DeviceTypes(name) ==
    CASE name = "x" -> {IntegerType}
      [] name = "device-status" ->
            {DiscreteType(<<"ok", "fail">>), DiscreteType(<<"ok", "degraded">>), IntegerType}
      [] name = "gui-urls" -> {StringType}

\* a renames value is a str or a sequence of str
AsStr(s) == [isstr |-> TRUE, str |-> s, list |-> <<>>]
AsList(l) == [isstr |-> FALSE, str |-> "", list |-> l]

\* renames arguments tried; destination names never collide (the caller's
\* responsibility)
NoRenames == EmptyMap
FanOutRenames == [n \in {"x", "gui-urls"} |->
                    IF n = "x" THEN AsList(<<"a", "b">>)
                    ELSE AsList(<<"g.gui-urls", "h">>)]
StrRenames == [n \in {"x", "device-status"} |->
                    IF n = "x" THEN AsStr("c") ELSE AsList(<<"ds1", "ds2">>)]
EmptyListRenames == [n \in {"x"} |-> AsList(<<>>)]
RenamesArgs == {NoRenames, FanOutRenames, StrRenames, EmptyListRenames}

\* filter arguments tried: None, or a predicate accepting these names
NoFilter == [given |-> FALSE, accept |-> {}]
FilterArgs == {NoFilter,
               [given |-> TRUE, accept |-> {"x", "gui-urls"}],
               [given |-> TRUE, accept |-> {"device-status"}]}

Configs == [renames : RenamesArgs,
            close_action : {"REMOVE", "UNREACHABLE"},
            filter : FilterArgs,
            rewrite_gui_urls : BOOLEAN]

\* the caller's rewrite_gui_urls(sensor) -> bytes
RewriteGuiUrls(sensor) == "rw(" \o sensor.name \o ")" \o sensor.value


-----------------------------------------------------------------------------
(* SensorWatcher: pure parts *)

\* filter that ignores the filter argument
filter_IgnoresArgument(name) == TRUE

\* SensorWatcher.filter: the filter argument if given, else the base class's
\* filter, which accepts every sensor
filter(name) ==
    IF cfg.filter.given THEN name \in cfg.filter.accept ELSE TRUE

\* rewrite_name that takes a list of names for a single name
rewrite_name_FirstOnly(name) ==
    LET names == IF name \in DOMAIN cfg.renames
                 THEN cfg.renames[name]
                 ELSE AsStr(Prefix \o name)
    IN  IF names.isstr THEN <<names.str>>
        ELSE IF names.list = <<>> THEN <<>> ELSE <<names.list[1]>>

\* SensorWatcher.rewrite_name
rewrite_name(name) ==
    LET names == IF name \in DOMAIN cfg.renames
                 THEN cfg.renames[name]
                 ELSE AsStr(Prefix \o name)
    IN  IF names.isstr THEN <<names.str>> ELSE names.list

\* the test of sensor_added and sensor_updated for a value to rewrite
IsGuiUrls(name, stype) ==
    /\ cfg.rewrite_gui_urls
    /\ EndsWith(name, GuiUrlsSuffix)
    /\ stype.type_name = "string"

\* The state the handlers work on, as one record
Mirror == [sensors |-> sensors, orig_sensors |-> orig_sensors,
           server_sensors |-> server_sensors, heap |-> heap,
           _need_notify |-> _need_notify]

\* objects no registry refers to any more are dropped from the heap
Live(m) == Range(m.sensors) \cup Range(m.orig_sensors) \cup Range(m.server_sensors)
Collect(m) == [m EXCEPT !.heap = [id \in Live(m) |-> m.heap[id]]]

-----------------------------------------------------------------------------
(* SensorWatcher.sensor_added *)

\* aiokatcp.SensorWatcher.sensor_added: one new Sensor per rewritten name,
\* added to self.sensors (replacing a sensor of that name)
RECURSIVE BaseSensorAdded(_, _, _, _)
BaseSensorAdded(m, names, i, stype) ==
    IF i > Len(names) THEN m
    ELSE LET rn == names[i]
             m1 == [m EXCEPT !.heap = Put(m.heap, BaseObj(rn), NewSensor(stype, rn)),
                             !.sensors = Put(m.sensors, rn, BaseObj(rn))]
         IN  BaseSensorAdded(m1, names, i + 1, stype)

\* the body of the loop of sensor_added for one rewritten name
AddOne(m, rn) ==
    LET id == m.sensors[rn]
        sensor == m.heap[id]
        m1 == [m EXCEPT !.orig_sensors = Put(m.orig_sensors, rn, id)]
    IN  IF IsGuiUrls(sensor.name, sensor.stype)
        THEN LET copy == NewSensorWith(sensor.stype, sensor.name,
                                       RewriteGuiUrls(sensor), sensor.status)
             IN  [m1 EXCEPT !.heap = Put(m1.heap, CloneObj(rn), copy),
                            !.server_sensors = Put(m1.server_sensors, rn, CloneObj(rn))]
        ELSE [m1 EXCEPT !.server_sensors = Put(m1.server_sensors, rn, id)]

RECURSIVE AddLoop(_, _, _)
AddLoop(m, names, i) ==
    IF i > Len(names) THEN m
    ELSE AddLoop(AddOne(m, names[i]), names, i + 1)

sensor_added(m, name, stype) ==
    LET m1 == BaseSensorAdded(m, rewrite_name(name), 1, stype)
        m2 == AddLoop(m1, rewrite_name(name), 1)
    IN  [m2 EXCEPT !._need_notify = TRUE]

-----------------------------------------------------------------------------
(* SensorWatcher.sensor_removed *)

\* _sensor_removed that forgets the destination registry
_sensor_removed_KeepsDestination(m, rn) ==
    [m EXCEPT !.orig_sensors = Pop(m.orig_sensors, rn),
              !._need_notify = TRUE]

\* SensorWatcher._sensor_removed
_sensor_removed(m, rn) ==
    [m EXCEPT !.server_sensors = Pop(m.server_sensors, rn),
              !.orig_sensors = Pop(m.orig_sensors, rn),
              !._need_notify = TRUE]

\* aiokatcp.SensorWatcher.sensor_removed
RECURSIVE BaseSensorRemoved(_, _, _)
BaseSensorRemoved(m, names, i) ==
    IF i > Len(names) THEN m
    ELSE BaseSensorRemoved([m EXCEPT !.sensors = Pop(m.sensors, names[i])], names, i + 1)

RECURSIVE RemoveLoop(_, _, _)
RemoveLoop(m, names, i) ==
    IF i > Len(names) THEN m
    ELSE RemoveLoop(_sensor_removed(m, names[i]), names, i + 1)

sensor_removed(m, name) ==
    RemoveLoop(BaseSensorRemoved(m, rewrite_name(name), 1), rewrite_name(name), 1)

-----------------------------------------------------------------------------
(* SensorWatcher.sensor_updated *)

\* aiokatcp.SensorWatcher.sensor_updated: decode the value for each rewritten
\* name's sensor and set it; an unknown sensor or an undecodable value is
\* skipped with a warning
RECURSIVE BaseSensorUpdated(_, _, _, _, _, _)
BaseSensorUpdated(m, names, i, raw, status, timestamp) ==
    IF i > Len(names) THEN m
    ELSE LET rn == names[i]
             ok == /\ rn \in DOMAIN m.sensors
                   /\ Decodable(m.heap[m.sensors[rn]].stype, raw)
             m1 == IF ok
                   THEN [m EXCEPT !.heap =
                            SetValue(m.heap, m.sensors[rn],
                                     Decode(m.heap[m.sensors[rn]].stype, raw),
                                     status, timestamp)]
                   ELSE m
         IN  BaseSensorUpdated(m1, names, i + 1, raw, status, timestamp)

\* the loop body of sensor_updated pushing the status and timestamp but not
\* the rewritten value
UpdateOne_KeepsValue(m, rn, status, timestamp) ==
    LET sensor == m.heap[m.sensors[rn]]
    IN  IF IsGuiUrls(rn, sensor.stype)
        THEN [m EXCEPT !.heap = SetValue(m.heap, m.server_sensors[rn],
                                         m.heap[m.server_sensors[rn]].value,
                                         status, timestamp)]
        ELSE m

\* the body of the loop of sensor_updated for one rewritten name
UpdateOne(m, rn, status, timestamp) ==
    LET sensor == m.heap[m.sensors[rn]]
    IN  IF IsGuiUrls(rn, sensor.stype)
        THEN [m EXCEPT !.heap = SetValue(m.heap, m.server_sensors[rn],
                                         RewriteGuiUrls(sensor), status, timestamp)]
        ELSE m

RECURSIVE UpdateLoop(_, _, _, _, _)
UpdateLoop(m, names, i, status, timestamp) ==
    IF i > Len(names) THEN m
    ELSE UpdateLoop(UpdateOne(m, names[i], status, timestamp), names, i + 1,
                    status, timestamp)

sensor_updated(m, name, raw, status, timestamp) ==
    UpdateLoop(BaseSensorUpdated(m, rewrite_name(name), 1, raw, status, timestamp),
               rewrite_name(name), 1, status, timestamp)

-----------------------------------------------------------------------------
(* SensorWatcher.batch_stop *)

\* What batch_stop does to the flag and how often it calls notify; raises
\* says whether the notify callback raises when called.  An exception leaves
\* batch_stop at the call, before the assignment that follows it.
batch_stop(flag, raises) ==
    [calls |-> IF flag THEN 1 ELSE 0,
     raised |-> (flag /\ raises),
     _need_notify |-> IF flag /\ raises THEN flag ELSE FALSE]

-----------------------------------------------------------------------------
(* SensorWatcher.state_updated *)

\* _mark_unreachable that resets a sensor whatever its status is
_mark_unreachable_AlwaysResets(h, id) ==
    LET sensor == h[id]
    IN  IF /\ sensor.name \in Range(rewrite_name("device-status"))
           /\ sensor.stype.type_name = "discrete"
           /\ HasFailValue(sensor.stype)
        THEN SetValue(h, id, "fail", "ERROR", 0)
        ELSE SetValue(h, id, TypeDefault(sensor.stype), "UNREACHABLE", 0)

\* SensorWatcher._mark_unreachable on the object id
_mark_unreachable(h, id) ==
    LET sensor == h[id]
    IN  IF /\ sensor.name \in Range(rewrite_name("device-status"))
           /\ sensor.stype.type_name = "discrete"
           /\ HasFailValue(sensor.stype)
        THEN SetValue(h, id, "fail", "ERROR", 0)
        ELSE IF sensor.status # "UNREACHABLE"
             THEN SetValue(h, id, TypeDefault(sensor.stype), "UNREACHABLE", 0)
             ELSE h

\* the loop body of state_updated removing from the destination registry only
CloseOne_KeepsShadow(m, name) ==
    IF cfg.close_action = "UNREACHABLE"
    THEN LET h1 == _mark_unreachable(m.heap, m.server_sensors[name])
             h2 == _mark_unreachable(h1, m.orig_sensors[name])
         IN  [m EXCEPT !.heap = h2]
    ELSE [m EXCEPT !.server_sensors = Pop(m.server_sensors, name),
                   !._need_notify = TRUE]

\* the body of the loop of state_updated for one name of self.sensors
CloseOne(m, name) ==
    IF cfg.close_action = "UNREACHABLE"
    THEN LET h1 == _mark_unreachable(m.heap, m.server_sensors[name])
             h2 == _mark_unreachable(h1, m.orig_sensors[name])
         IN  [m EXCEPT !.heap = h2]
    ELSE IF cfg.close_action = "REMOVE"
         THEN _sensor_removed(m, name)
         ELSE m

RECURSIVE CloseLoop(_, _)
CloseLoop(m, names) ==
    IF names = {} THEN m
    ELSE LET name == CHOOSE n \in names : TRUE
         IN  CloseLoop(CloseOne(m, name), names \ {name})


-----------------------------------------------------------------------------
(* The mirror driven by its collaborator (aiokatcp.Client's sensor monitor),
   which calls the handlers serially: batch_start, then sensor_added /
   sensor_removed / sensor_updated, then batch_stop; state_updated between
   batches.  It asks filter for every sensor the device announces and
   calls the handlers only for the sensors filter accepts. *)

NoStop == [happened |-> FALSE, dirty |-> FALSE, calls |-> 0, raised |-> FALSE]
NoObserver == [kind |-> "none"]

MirrorInit ==
    /\ cfg \in Configs
    /\ device = {}
    /\ sensors = EmptyMap
    /\ orig_sensors = EmptyMap
    /\ server_sensors = [n \in OwnNames |-> OwnObj(n)]
    /\ heap = [id \in {OwnObj(n) : n \in OwnNames} |-> NewSensor(IntegerType, id[1])]
    /\ _need_notify = FALSE
    /\ inBatch = FALSE
    /\ connState = "SYNCING"
    /\ synced = FALSE
    /\ changed = FALSE
    /\ lastStop = NoStop
    /\ lastReading = [n \in Upstream |-> <<>>]

\* assign the handlers' result to the state
Becomes(m) ==
    LET c == Collect(m)
    IN  /\ sensors' = c.sensors
        /\ orig_sensors' = c.orig_sensors
        /\ server_sensors' = c.server_sensors
        /\ heap' = c.heap
        /\ _need_notify' = c._need_notify

BatchStart ==
    /\ ~inBatch
    /\ connState # "CLOSED"
    /\ inBatch' = TRUE
    /\ lastStop' = NoStop
    /\ UNCHANGED <<cfg, device, sensors, orig_sensors, server_sensors, heap, _need_notify,
                   connState, synced, changed, lastReading>>
    /\ UNCHANGED <<obsVars, watcherVars>>

\* the device announces a new or changed sensor
SensorAdded(name, stype) ==
    /\ inBatch
    /\ device' = device \cup {name}
    /\ IF filter(name)
       THEN /\ Becomes(sensor_added(Mirror, name, stype))
            /\ changed' = TRUE
            /\ lastReading' = [lastReading EXCEPT ![name] = <<>>]
       ELSE UNCHANGED <<sensors, orig_sensors, server_sensors, heap, _need_notify,
                        changed, lastReading>>
    /\ UNCHANGED <<cfg, inBatch, connState, synced, lastStop>>
    /\ UNCHANGED <<obsVars, watcherVars>>

\* a sensor of the device is gone
SensorRemoved(name) ==
    /\ inBatch
    /\ name \in device
    /\ device' = device \ {name}
    /\ IF filter(name)
       THEN /\ Becomes(sensor_removed(Mirror, name))
            /\ changed' = (changed \/ Len(rewrite_name(name)) > 0)
            /\ lastReading' = [lastReading EXCEPT ![name] = <<>>]
       ELSE UNCHANGED <<sensors, orig_sensors, server_sensors, heap, _need_notify,
                        changed, lastReading>>
    /\ UNCHANGED <<cfg, inBatch, connState, synced, lastStop>>
    /\ UNCHANGED <<obsVars, watcherVars>>

\* the type of the monitored upstream sensor, as the mirror holds it
MirroredType(name) == heap[sensors[rewrite_name(name)[1]]].stype

\* wire values the modelled device sends for a sensor of this type: one
\* that differs from the type's default, and one that only a string takes
RawsFor(stype) ==
    CASE stype.type_name = "integer" -> {"1", "u1"}
      [] stype.type_name = "string" -> {"u1"}
      [] stype.type_name = "discrete" -> {stype.domain[2], "u1"}

\* a reading of a monitored sensor arrives
SensorUpdated(name, raw, status, timestamp) ==
    /\ inBatch
    /\ name \in device
    /\ filter(name)
    /\ Len(rewrite_name(name)) > 0 => raw \in RawsFor(MirroredType(name))
    /\ Becomes(sensor_updated(Mirror, name, raw, status, timestamp))
    /\ lastReading' =
         IF Len(rewrite_name(name)) > 0 /\ Decodable(MirroredType(name), raw)
         THEN [lastReading EXCEPT ![name] =
                 <<[value |-> Decode(MirroredType(name), raw), status |-> status,
                    timestamp |-> timestamp]>>]
         ELSE lastReading
    /\ UNCHANGED <<cfg, device, inBatch, connState, synced, changed, lastStop>>
    /\ UNCHANGED <<obsVars, watcherVars>>

BatchStop(raises) ==
    /\ inBatch
    /\ LET r == batch_stop(_need_notify, raises)
       IN  /\ _need_notify' = r._need_notify
           /\ lastStop' = [happened |-> TRUE, dirty |-> changed, calls |-> r.calls,
                           raised |-> r.raised]
    /\ inBatch' = FALSE
    /\ changed' = FALSE
    /\ UNCHANGED <<cfg, device, sensors, orig_sensors, server_sensors, heap,
                   connState, synced, lastReading>>
    /\ UNCHANGED <<obsVars, watcherVars>>

\* state_updated(SYNCING) and state_updated(SYNCED): only the base class acts
StateSync(state) ==
    /\ ~inBatch
    /\ connState # "CLOSED"
    /\ state \in {"SYNCING", "SYNCED"}
    /\ connState' = state
    /\ synced' = (state = "SYNCED")
    /\ UNCHANGED <<cfg, device, sensors, orig_sensors, server_sensors, heap, _need_notify,
                   inBatch, changed, lastStop, lastReading>>
    /\ UNCHANGED <<obsVars, watcherVars>>

\* state_updated(CLOSED): a batch of its own over the names of self.sensors
StateClosed(raises) ==
    /\ ~inBatch
    /\ connState # "CLOSED"
    /\ connState' = "CLOSED"
    /\ synced' = FALSE
    /\ LET m == CloseLoop(Mirror, DOMAIN sensors)
           r == batch_stop(m._need_notify, raises)
       IN  /\ Becomes([m EXCEPT !._need_notify = r._need_notify])
           /\ lastStop' = [happened |-> TRUE,
                           dirty |-> (cfg.close_action = "REMOVE" /\ DOMAIN sensors # {}),
                           calls |-> r.calls, raised |-> r.raised]
    /\ changed' = FALSE
    /\ UNCHANGED <<cfg, device, inBatch, lastReading>>
    /\ UNCHANGED <<obsVars, watcherVars>>

Init ==
    /\ MirrorInit
    /\ obs = NoObserver
    /\ prev = <<>>
    /\ fed = <<>>
    /\ applied = <<>>
    /\ WatcherInit

Next ==
    \/ BatchStart
    \/ \E name \in Upstream : \E stype \in DeviceTypes(name) : SensorAdded(name, stype)
    \/ \E name \in Upstream : SensorRemoved(name)
    \/ \E name \in Upstream, raw \in RawValues, status \in DeviceStatuses,
          timestamp \in UpstreamTimes : SensorUpdated(name, raw, status, timestamp)
    \/ \E raises \in BOOLEAN : BatchStop(raises)
    \/ \E state \in {"SYNCING", "SYNCED"} : StateSync(state)
    \/ \E raises \in BOOLEAN : StateClosed(raises)

Spec == Init /\ [][Next]_vars

-----------------------------------------------------------------------------
(* Claims about the mirror *)

\* The rename rule as the specification words it: the explicit renames entry
\* of an upstream name, else the prefix followed by the name.
RenameImage(name) ==
    IF name \in DOMAIN cfg.renames
    THEN IF cfg.renames[name].isstr
         THEN {cfg.renames[name].str}
         ELSE Range(cfg.renames[name].list)
    ELSE {Prefix \o name}

\* the filter argument rejects the sensor
Rejected(name) == cfg.filter.given /\ name \notin cfg.filter.accept

\* the names the mirror holds in a registry
Mirrored(registry) == (DOMAIN registry) \ OwnNames

AllDestinations == UNION {RenameImage(n) : n \in Upstream}

\* C1: outside a batch (and before the connection closes) the names the
\* mirror holds in server.sensors are exactly the image under the rename rule
\* of the upstream sensors that exist and passed the filter.
C1_DestinationIsImage ==
    (~inBatch /\ connState # "CLOSED") =>
        Mirrored(server_sensors) =
            UNION {RenameImage(n) : n \in {u \in device : ~Rejected(u)}}

\* after a batch, a fanned-out sensor is mirrored under both its names with
\* an upstream reading while a sensor the filter rejected exists upstream
C1_Witness ==
    /\ ~inBatch /\ connState # "CLOSED" /\ lastStop.happened
    /\ cfg.renames = FanOutRenames
    /\ device = {"x", "device-status"}
    /\ Rejected("device-status")
    /\ Mirrored(server_sensors) = {"a", "b"}
    /\ heap[server_sensors["a"]].status = "NOMINAL"

\* C2: every batch_stop calls notify once if sensor_added or _sensor_removed
\* ran since the previous batch_stop, and not at all otherwise.
C2_NotifyOncePerDirtyBatch ==
    lastStop.happened => lastStop.calls = (IF lastStop.dirty THEN 1 ELSE 0)

\* C3: after a batch_stop whose notify call raised, _need_notify is false.
C3_FlagClearedWhenNotifyRaises ==
    lastStop.raised => ~_need_notify

\* C4: after state_updated(CLOSED) with CloseAction.REMOVE no destination
\* name of a mirrored sensor is left in server.sensors or orig_sensors; the
\* server holds its own sensors only.
C4_CloseRemoveEmpties ==
    (connState = "CLOSED" /\ cfg.close_action = "REMOVE") =>
        /\ (DOMAIN server_sensors) \cap AllDestinations = {}
        /\ (DOMAIN orig_sensors) \cap AllDestinations = {}
        /\ DOMAIN server_sensors = OwnNames

\* the connection closed while three destination sensors were mirrored
C4_Witness ==
    /\ connState = "CLOSED" /\ cfg.close_action = "REMOVE"
    /\ Cardinality(DOMAIN sensors) >= 3
    /\ lastStop.dirty


\* the sensor gets the device-status treatment of _mark_unreachable
IsFailingDeviceStatus(sensor) ==
    /\ sensor.name \in RenameImage("device-status")
    /\ sensor.stype.type_name = "discrete"
    /\ "fail" \in Range(sensor.stype.domain)

\* the step is state_updated(CLOSED)
ClosesNow == connState # "CLOSED" /\ connState' = "CLOSED"

\* C5 as claimed: after state_updated(CLOSED) with CloseAction.UNREACHABLE
\* every mirrored sensor of both registries is either the failing
\* device-status sensor, with value "fail" and status ERROR, or has status
\* UNREACHABLE and its type's default value.
C5_CloseUnreachableResetsAll ==
    (connState = "CLOSED" /\ cfg.close_action = "UNREACHABLE") =>
        \A registry \in {server_sensors, orig_sensors} :
            \A name \in Mirrored(registry) :
                LET sensor == heap[registry[name]]
                IN  IF IsFailingDeviceStatus(sensor)
                    THEN sensor.value = "fail" /\ sensor.status = "ERROR"
                    ELSE /\ sensor.status = "UNREACHABLE"
                         /\ sensor.value = TypeDefault(sensor.stype)

\* what state_updated(CLOSED) with CloseAction.UNREACHABLE makes of a sensor
ClosedReading(before, after) ==
    IF IsFailingDeviceStatus(before)
    THEN after.value = "fail" /\ after.status = "ERROR"
    ELSE IF before.status = "UNREACHABLE"
         THEN after = before
         ELSE /\ after.status = "UNREACHABLE"
              /\ after.value = TypeDefault(after.stype)

\* C5 amended: state_updated(CLOSED) with CloseAction.UNREACHABLE keeps the
\* names of both registries and makes every mirrored sensor either the
\* failing device-status sensor with value "fail" and status ERROR, or a
\* sensor with status UNREACHABLE: with its type's default value if its
\* status was not UNREACHABLE before the close, with its reading left as it
\* was (value retained) if it already was UNREACHABLE.
C5_CloseUnreachableAmended ==
    [][(ClosesNow /\ cfg.close_action = "UNREACHABLE") =>
         /\ DOMAIN server_sensors' = DOMAIN server_sensors
         /\ DOMAIN orig_sensors' = DOMAIN orig_sensors
         /\ \A name \in Mirrored(server_sensors) :
              ClosedReading(heap[server_sensors[name]], heap'[server_sensors'[name]])
         /\ \A name \in Mirrored(orig_sensors) :
              ClosedReading(heap[orig_sensors[name]], heap'[orig_sensors'[name]])]_vars

\* after the close a sensor that was reset, one that was already UNREACHABLE
\* and kept the value 1, and the failed device-status sensor
C5_Witness ==
    /\ connState = "CLOSED" /\ cfg.close_action = "UNREACHABLE"
    /\ cfg.renames = StrRenames /\ cfg.rewrite_gui_urls
    /\ {"c", "ds1", "ds2", "p.gui-urls"} \subseteq DOMAIN server_sensors
    /\ heap[server_sensors["c"]].status = "UNREACHABLE"
    /\ heap[server_sensors["c"]].value = 1
    /\ heap[server_sensors["c"]].timestamp = 1
    /\ heap[server_sensors["ds1"]].status = "ERROR"
    /\ heap[orig_sensors["ds2"]].value = "fail"
    /\ heap[server_sensors["p.gui-urls"]].status = "UNREACHABLE"
    /\ heap[server_sensors["p.gui-urls"]].value = ""
    /\ heap[orig_sensors["p.gui-urls"]].value = ""
    /\ lastReading["gui-urls"] # <<>>


\* upstream sensors whose renames entry lists at least one destination name
Renamed == {x \in DOMAIN cfg.renames : RenameImage(x) # {}}

SameReading(sensor, reading) ==
    /\ sensor.value = reading.value
    /\ sensor.status = reading.status
    /\ sensor.timestamp = reading.timestamp

\* a destination sensor whose value sensor_added and sensor_updated rewrite
UrlBearing(sensor) ==
    /\ cfg.rewrite_gui_urls
    /\ EndsWith(sensor.name, GuiUrlsSuffix)
    /\ sensor.stype.type_name = "string"

\* the destination names of x are all in server.sensors or all absent, and
\* absent when x does not exist upstream
AllOrNone(x) ==
    LET present == RenameImage(x) \cap DOMAIN server_sensors
    IN  /\ present = {} \/ present = RenameImage(x)
        /\ x \notin device => present = {}

\* C6 as claimed: before the connection closes, the destination names of a
\* renamed upstream sensor x are all present or all absent in server.sensors
\* (absent once x is removed), and while present each carries the value,
\* status and timestamp of the latest upstream reading of x.
C6_FanOutCarriesUpstreamReading ==
    connState # "CLOSED" =>
        \A x \in Renamed :
            /\ AllOrNone(x)
            /\ (RenameImage(x) \subseteq DOMAIN server_sensors /\ lastReading[x] # <<>>) =>
                  \A d \in RenameImage(x) :
                      SameReading(heap[server_sensors[d]], lastReading[x][1])

\* C6 amended: as claimed for status and timestamp, and for the value of
\* every destination sensor that is not URL-bearing; a URL-bearing one (name
\* ending in .gui-urls, byte-string type, rewrite function configured)
\* carries the rewrite function's result for the shadow sensor, which
\* carries the upstream value.
C6_FanOutAmended ==
    connState # "CLOSED" =>
        \A x \in Renamed :
            /\ AllOrNone(x)
            /\ (RenameImage(x) \subseteq DOMAIN server_sensors /\ lastReading[x] # <<>>) =>
                  \A d \in RenameImage(x) :
                      LET sensor == heap[server_sensors[d]]
                          reading == lastReading[x][1]
                      IN  /\ sensor.status = reading.status
                          /\ sensor.timestamp = reading.timestamp
                          /\ IF UrlBearing(sensor)
                             THEN /\ sensor.value = RewriteGuiUrls(heap[orig_sensors[d]])
                                  /\ heap[orig_sensors[d]].value = reading.value
                             ELSE sensor.value = reading.value

\* x fanned out to a and b and gui-urls fanned out to g.gui-urls and h, each
\* with an upstream reading; the value of g.gui-urls is rewritten
C6_Witness ==
    /\ connState # "CLOSED"
    /\ cfg.renames = FanOutRenames /\ cfg.rewrite_gui_urls
    /\ {"a", "b", "g.gui-urls", "h"} \subseteq DOMAIN server_sensors
    /\ lastReading["x"] = <<[value |-> 1, status |-> "NOMINAL", timestamp |-> 1]>>
    /\ heap[server_sensors["a"]].value = 1
    /\ heap[server_sensors["b"]].value = 1
    /\ lastReading["gui-urls"] # <<>>
    /\ heap[server_sensors["h"]].value = "u1"
    /\ heap[server_sensors["g.gui-urls"]].value = "rw(g.gui-urls)u1"

\* the shadow and the destination sensor of a mirrored name are in step
InStep(shadow, destination) ==
    IF UrlBearing(destination)
    THEN /\ destination.value = RewriteGuiUrls(shadow)
         /\ destination.status = shadow.status
    ELSE /\ destination.value = shadow.value
         /\ destination.status = shadow.status
         /\ destination.timestamp = shadow.timestamp

\* C15 as claimed: after every handler, the closing one included, orig_sensors
\* and server.sensors hold the same mirrored names; a sensor that is not
\* URL-bearing has the same value, status and timestamp in both, and a
\* URL-bearing one has in server.sensors the rewrite function's result for
\* the sensor of orig_sensors, with the same status.
C15_Lockstep ==
    /\ Mirrored(server_sensors) = DOMAIN orig_sensors
    /\ \A name \in DOMAIN orig_sensors :
          InStep(heap[orig_sensors[name]], heap[server_sensors[name]])

\* state_updated(CLOSED) with CloseAction.UNREACHABLE has reset both sensors
BothReset(shadow, destination) ==
    /\ connState = "CLOSED" /\ cfg.close_action = "UNREACHABLE"
    /\ shadow.status = "UNREACHABLE" /\ destination.status = "UNREACHABLE"
    /\ shadow.value = TypeDefault(shadow.stype)
    /\ destination.value = TypeDefault(destination.stype)

\* C15 amended: as claimed after sensor_added, sensor_removed, sensor_updated
\* and a close that removes; after a close with CloseAction.UNREACHABLE a
\* URL-bearing sensor that was not already UNREACHABLE has its type's default
\* value and status UNREACHABLE in both registries, the value in
\* server.sensors not being rewritten.
C15_LockstepAmended ==
    /\ Mirrored(server_sensors) = DOMAIN orig_sensors
    /\ \A name \in DOMAIN orig_sensors :
          LET shadow == heap[orig_sensors[name]]
              destination == heap[server_sensors[name]]
          IN  \/ InStep(shadow, destination)
              \/ UrlBearing(destination) /\ BothReset(shadow, destination)

\* a URL-bearing sensor with an upstream reading next to a plain one: the
\* shadow holds the upstream value, the destination the rewritten one
C15_Witness ==
    /\ connState # "CLOSED"
    /\ cfg.rewrite_gui_urls /\ cfg.renames = NoRenames
    /\ {"p.gui-urls", "p.x"} \subseteq DOMAIN orig_sensors
    /\ heap[orig_sensors["p.gui-urls"]].value = "u1"
    /\ heap[orig_sensors["p.gui-urls"]].status = "NOMINAL"
    /\ heap[server_sensors["p.gui-urls"]].value = "rw(p.gui-urls)u1"
    /\ heap[server_sensors["p.gui-urls"]].status = "NOMINAL"
    /\ heap[server_sensors["p.x"]].value = 1
    /\ orig_sensors["p.x"] = server_sensors["p.x"]

\* C7: a sensor the filter argument rejects is in neither registry under any
\* of its destination names.
C7_RejectedNeverMirrored ==
    \A n \in Upstream :
        Rejected(n) =>
            RenameImage(n) \cap ((DOMAIN server_sensors) \cup (DOMAIN orig_sensors)) = {}

\* the rejected sensors exist upstream next to a mirrored one, after a batch
C7_Witness ==
    /\ ~inBatch /\ lastStop.happened
    /\ cfg.renames = FanOutRenames
    /\ Rejected("x") /\ Rejected("gui-urls")
    /\ device = Upstream
    /\ Mirrored(server_sensors) = {"p.device-status"}


\* the step is sensor_added for an upstream sensor that was not there
Announced(name) == inBatch /\ name \notin device /\ name \in device'

\* the step leaves the names and the objects of the three registries alone
RegistriesKept ==
    /\ sensors' = sensors
    /\ orig_sensors' = orig_sensors
    /\ server_sensors' = server_sensors

\* the batch_stop that follows the step calls notify as often as a
\* batch_stop in place of the step would have, which is what follows a
\* sensor that the filter rejects
NotifiesAsIfFiltered ==
    \A raises \in BOOLEAN :
        batch_stop(_need_notify', raises).calls = batch_stop(_need_notify, raises).calls

\* C19: sensor_added for an accepted sensor whose renames entry is an empty
\* list leaves the registries as they are, and the batch ends with as many
\* notify calls as if the filter had rejected the sensor.
C19_EmptyListAsFiltered ==
    [][\A name \in Upstream :
          (Announced(name) /\ ~Rejected(name) /\ RenameImage(name) = {}) =>
              (RegistriesKept /\ NotifiesAsIfFiltered)]_vars

\* the part of C19 about the registries
EmptyListKeepsRegistries ==
    [][\A name \in Upstream :
          (Announced(name) /\ ~Rejected(name) /\ RenameImage(name) = {}) =>
              RegistriesKept]_vars

\* the step is state_updated(CLOSED) of a mirror with MARK_UNREACHABLE
ClosesUnreachable ==
    /\ connState # "CLOSED" /\ connState' = "CLOSED"
    /\ cfg.close_action = "UNREACHABLE"

\* the step is state_updated(SYNCING) or state_updated(SYNCED)
Syncs == connState' # connState /\ connState' \in {"SYNCING", "SYNCED"}

\* the step keeps the names of server.sensors and of orig_sensors
NamesKept ==
    /\ DOMAIN server_sensors' = DOMAIN server_sensors
    /\ DOMAIN orig_sensors' = DOMAIN orig_sensors

\* C20: state_updated(CLOSED) with MARK_UNREACHABLE keeps the names of both
\* registries and does not set _need_notify, and its batch_stop does not
\* call notify when neither sensor_added nor _sensor_removed ran since the
\* previous batch_stop; state_updated(SYNCING) and state_updated(SYNCED)
\* change neither the registries nor _need_notify.
C20_CloseUnreachableFrame ==
    [][/\ ClosesUnreachable =>
             /\ NamesKept
             /\ _need_notify' => _need_notify
             /\ ~changed => lastStop'.calls = 0
       /\ Syncs =>
             /\ RegistriesKept
             /\ heap' = heap
             /\ _need_notify' = _need_notify]_vars

\* the same where no earlier notify call raised and left _need_notify set
CloseUnreachableFrameWhereCleared ==
    [][/\ ClosesUnreachable =>
             /\ NamesKept
             /\ _need_notify' => _need_notify
             /\ ~_need_notify => lastStop'.calls = 0
       /\ Syncs =>
             /\ RegistriesKept
             /\ heap' = heap
             /\ _need_notify' = _need_notify]_vars


-----------------------------------------------------------------------------
(* PrometheusObserver *)

\* aiokatcp.Sensor.Status values
StatusCode == [s \in Statuses |->
    CASE s = "UNKNOWN" -> 0 [] s = "NOMINAL" -> 1 [] s = "WARN" -> 2 [] s = "ERROR" -> 3
      [] s = "FAILURE" -> 4 [] s = "UNREACHABLE" -> 5 [] s = "INACTIVE" -> 6]

\* reading.status.valid_value()
valid_value(status) == status \in {"NOMINAL", "WARN", "ERROR"}

\* reading values: a number, or a member of an enum.Enum with its members in order
NumValue(n) == [isenum |-> FALSE, num |-> n, member |-> "", members |-> <<>>]
EnumValue(member, members) == [isenum |-> TRUE, num |-> 0, member |-> member,
                               members |-> members]

\* _reading_to_float: the position of an enum member among the members of its
\* type (-1 if it is not among them), else the number
_reading_to_float(reading) ==
    LET value == reading.value
    IN  IF value.isenum
        THEN IF \E i \in DOMAIN value.members : value.members[i] = value.member
             THEN (CHOOSE i \in DOMAIN value.members :
                      /\ value.members[i] = value.member
                      /\ \A j \in 1 .. (i - 1) : value.members[j] # value.member) - 1
             ELSE -1
        ELSE value.num

\* type(self._value_metric).__name__ of the series the factory's class_ made
MetricTypes == {"Gauge", "Counter", "Histogram", "Summary"}

\* a new labelled child: a Gauge or Counter at 0, a Histogram without samples
NewMetric(metric_type) == IF metric_type = "Histogram" THEN <<>> ELSE 0

\* PrometheusObserver.__init__
NewObserver(metric_type) ==
    [kind |-> metric_type,
     _old_value |-> 0,
     _old_timestamp |-> <<>>,
     _value_metric |-> NewMetric(metric_type),
     _status_metric |-> 0,
     attached |-> TRUE,
     labelled |-> TRUE]

\* nothing was done to the value series
Untouched == [op |-> "none", arg |-> 0]

\* __call__ that moves the Counter by the difference whatever its sign
Dispatch_NoResetCheck(o, valid, value, timestamp) ==
    CASE o.kind = "Gauge" ->
            IF valid
            THEN [metric |-> value, did |-> [op |-> "set", arg |-> value], raised |-> FALSE]
            ELSE [metric |-> o._value_metric, did |-> Untouched, raised |-> FALSE]
      [] o.kind = "Counter" ->
            IF valid
            THEN [metric |-> o._value_metric + (value - o._old_value),
                  did |-> [op |-> "inc", arg |-> value - o._old_value],
                  raised |-> FALSE]
            ELSE [metric |-> o._value_metric, did |-> Untouched, raised |-> FALSE]
      [] o.kind = "Histogram" ->
            IF valid /\ <<timestamp>> # o._old_timestamp
            THEN [metric |-> Append(o._value_metric, value),
                  did |-> [op |-> "observe", arg |-> value], raised |-> FALSE]
            ELSE [metric |-> o._value_metric, did |-> Untouched, raised |-> FALSE]
      [] OTHER -> [metric |-> o._value_metric, did |-> Untouched, raised |-> TRUE]

\* __call__ that sets the Gauge whether or not the reading is valid
Dispatch_SetsInvalid(o, valid, value, timestamp) ==
    CASE o.kind = "Gauge" ->
            [metric |-> value, did |-> [op |-> "set", arg |-> value], raised |-> FALSE]
      [] o.kind = "Counter" ->
            IF valid /\ ~(value < o._old_value)
            THEN [metric |-> o._value_metric + (value - o._old_value),
                  did |-> [op |-> "inc", arg |-> value - o._old_value],
                  raised |-> FALSE]
            ELSE [metric |-> o._value_metric, did |-> Untouched, raised |-> FALSE]
      [] o.kind = "Histogram" ->
            IF valid /\ <<timestamp>> # o._old_timestamp
            THEN [metric |-> Append(o._value_metric, value),
                  did |-> [op |-> "observe", arg |-> value], raised |-> FALSE]
            ELSE [metric |-> o._value_metric, did |-> Untouched, raised |-> FALSE]
      [] OTHER -> [metric |-> o._value_metric, did |-> Untouched, raised |-> TRUE]

\* the dispatch of __call__ on the type of the value series: the series
\* afterwards, what was done to it, and whether TypeError was raised
Dispatch(o, valid, value, timestamp) ==
    CASE o.kind = "Gauge" ->
            IF valid
            THEN [metric |-> value, did |-> [op |-> "set", arg |-> value], raised |-> FALSE]
            ELSE [metric |-> o._value_metric, did |-> Untouched, raised |-> FALSE]
      [] o.kind = "Counter" ->
            IF valid /\ ~(value < o._old_value)
            THEN [metric |-> o._value_metric + (value - o._old_value),
                  did |-> [op |-> "inc", arg |-> value - o._old_value],
                  raised |-> FALSE]
            ELSE [metric |-> o._value_metric, did |-> Untouched, raised |-> FALSE]
      [] o.kind = "Histogram" ->
            IF valid /\ <<timestamp>> # o._old_timestamp
            THEN [metric |-> Append(o._value_metric, value),
                  did |-> [op |-> "observe", arg |-> value], raised |-> FALSE]
            ELSE [metric |-> o._value_metric, did |-> Untouched, raised |-> FALSE]
      [] OTHER -> [metric |-> o._value_metric, did |-> Untouched, raised |-> TRUE]

\* the end of __call__ that remembers the timestamp of valid readings only
Remember_ValidOnly(o, valid, value, timestamp) ==
    [o EXCEPT !._old_value = IF valid THEN value ELSE @,
              !._old_timestamp = IF valid THEN <<timestamp>> ELSE @]

\* the end of __call__ that keeps the old value when the value went down
Remember_KeepsOnDecrease(o, valid, value, timestamp) ==
    [o EXCEPT !._old_value = IF valid /\ value >= @ THEN value ELSE @,
              !._old_timestamp = <<timestamp>>]

\* the end of __call__: the last value of a valid reading, the last timestamp
Remember(o, valid, value, timestamp) ==
    [o EXCEPT !._old_value = IF valid THEN value ELSE @,
              !._old_timestamp = <<timestamp>>]

\* PrometheusObserver.__call__: the observer afterwards and what was done
__call__(o, reading) ==
    LET valid == valid_value(reading.status)
        value == IF valid THEN _reading_to_float(reading) ELSE 0
        timestamp == reading.timestamp
        o1 == [o EXCEPT !._status_metric = StatusCode[reading.status]]
        d == Dispatch(o1, valid, value, timestamp)
    IN  IF d.raised
        THEN [obs |-> o1, did |-> d.did, raised |-> TRUE]
        ELSE [obs |-> Remember([o1 EXCEPT !._value_metric = d.metric],
                               valid, value, timestamp),
              did |-> d.did, raised |-> FALSE]

\* PrometheusObserver.close
close(o) == [o EXCEPT !.attached = FALSE, !.labelled = FALSE]

-----------------------------------------------------------------------------
(* One observer and the readings of its sensor *)

ObsValues == {NumValue(n) : n \in {3, 5, 6, 8}} \cup {EnumValue("fail", <<"ok", "fail">>)}
ObsStatuses == {"NOMINAL", "WARN", "UNKNOWN"}
ObsTimes == 1 .. MaxObsTime
Readings == [value : ObsValues, status : ObsStatuses, timestamp : ObsTimes]

\* the numeric value of a reading as the specification words it: the number,
\* or the position of the enum member among the members, counted from 0
NumericValue(reading) ==
    IF reading.value.isenum
    THEN CHOOSE k \in 0 .. Len(reading.value.members) - 1 :
             reading.value.members[k + 1] = reading.value.member
    ELSE reading.value.num

\* the sensor's value changes (or _make_observer populates the initial
\* value): the attached observer is called with the reading
ObserverCalled(reading) ==
    /\ obs.attached
    /\ Len(fed) < MaxReadings
    /\ LET r == __call__(obs, reading)
       IN  /\ obs' = r.obs
           /\ applied' = Append(applied, r.did)
    /\ prev' = <<reading>>
    /\ fed' = Append(fed, [valid |-> valid_value(reading.status),
                           value |-> IF valid_value(reading.status)
                                     THEN NumericValue(reading) ELSE 0])
    /\ UNCHANGED <<mirrorVars, watcherVars>>

ObserverClosed ==
    /\ obs.attached
    /\ obs' = close(obs)
    /\ UNCHANGED <<prev, fed, applied>>
    /\ UNCHANGED <<mirrorVars, watcherVars>>

ObserverInit ==
    /\ \E metric_type \in MetricTypes : obs = NewObserver(metric_type)
    /\ prev = <<>>
    /\ fed = <<>>
    /\ applied = <<>>
    /\ MirrorInit
    /\ cfg = [renames |-> NoRenames, close_action |-> "REMOVE", filter |-> NoFilter,
              rewrite_gui_urls |-> FALSE]
    /\ WatcherInit

ObserverNext ==
    \/ \E reading \in Readings : ObserverCalled(reading)
    \/ ObserverClosed

SpecObserver == ObserverInit /\ [][ObserverNext]_vars


-----------------------------------------------------------------------------
(* Claims about the observer *)

\* the readings given so far, each with what was done to the value series
History == [i \in 1 .. Len(fed) |->
              [valid |-> fed[i].valid, value |-> fed[i].value, did |-> applied[i]]]
ValidHistory == SelectSeq(History, LAMBDA h : h.valid)
ValidValues == [i \in 1 .. Len(ValidHistory) |-> ValidHistory[i].value]
\* per valid reading the amount the series was moved by, 0 if it was not
ValidAmounts == [i \in 1 .. Len(ValidHistory) |->
                   IF ValidHistory[i].did.op = "inc" THEN ValidHistory[i].did.arg ELSE 0]

RECURSIVE SumAmounts(_, _)
SumAmounts(dids, i) ==
    IF i > Len(dids) THEN 0
    ELSE (IF dids[i].op = "inc" THEN dids[i].arg ELSE 0) + SumAmounts(dids, i + 1)

\* C8: every amount applied to a Counter series is non-negative and only
\* valid readings apply one, so the series (the sum of the amounts) never
\* decreases; the valid values 5, 8, 3, 6 apply 5, 3, nothing, 3.
C8_CounterNeverDecreases ==
    obs.kind = "Counter" =>
        /\ \A i \in DOMAIN applied :
              /\ applied[i].op \in {"inc", "none"}
              /\ applied[i].arg >= 0
              /\ ~fed[i].valid => applied[i].op = "none"
        /\ obs._value_metric = SumAmounts(applied, 1)
        /\ ValidValues = <<5, 8, 3, 6>> => ValidAmounts = <<5, 3, 0, 3>>

\* the Counter was given the valid values 5, 8, 3, 6 and stands at 11
C8_Witness ==
    /\ obs.kind = "Counter"
    /\ ValidValues = <<5, 8, 3, 6>>
    /\ obs._value_metric = 11
    /\ obs._old_value = 6

\* C9: a reading given to a Histogram observer records one sample, its
\* numeric value, if it is valid and its timestamp differs from that of the
\* reading given immediately before it (or it is the first reading), and
\* records nothing otherwise; so of a run of readings with one timestamp
\* only the first can be recorded.
C9_HistogramOncePerTimestamp ==
    [][(obs.kind = "Histogram" /\ Len(fed') = Len(fed) + 1) =>
         LET reading == prev'[1]
             entry == fed'[Len(fed')]
             newRun == prev = <<>> \/ prev[1].timestamp # reading.timestamp
         IN  obs'._value_metric =
                 IF entry.valid /\ newRun
                 THEN Append(obs._value_metric, entry.value)
                 ELSE obs._value_metric]_vars

\* three valid readings, the first two with differing values: two samples,
\* the first and the third, so the second repeated the first's timestamp
C9_Witness ==
    /\ obs.kind = "Histogram"
    /\ Len(fed) = 3
    /\ \A i \in 1 .. 3 : fed[i].valid
    /\ fed[1].value # fed[2].value
    /\ obs._value_metric = <<fed[1].value, fed[3].value>>

\* C10: after each reading given to a Gauge observer the status series is
\* the numeric code of the reading's status and the value series the
\* numeric value of the most recent valid reading.
C10_GaugeHoldsLastValid ==
    (obs.kind = "Gauge" /\ prev # <<>>) =>
        /\ obs._status_metric = StatusCode[prev[1].status]
        /\ ValidValues # <<>> => obs._value_metric = ValidValues[Len(ValidValues)]

\* a valid 8 followed by a reading of status UNKNOWN: the gauge stays at 8,
\* the status series is 0
C10_Witness ==
    /\ obs.kind = "Gauge"
    /\ Len(fed) >= 2
    /\ fed[Len(fed) - 1] = [valid |-> TRUE, value |-> 8]
    /\ ~fed[Len(fed)].valid
    /\ prev[1].status = "UNKNOWN"
    /\ obs._value_metric = 8
    /\ obs._status_metric = 0

\* the sum the specification words: over the values in order, with a
\* baseline of 0 before the first, the rise from the value before, and
\* nothing for a fall
RECURSIVE SumOfRises(_, _)
SumOfRises(values, i) ==
    IF i > Len(values) THEN 0
    ELSE LET before == IF i = 1 THEN 0 ELSE values[i - 1]
         IN  (IF values[i] >= before THEN values[i] - before ELSE 0)
                 + SumOfRises(values, i + 1)

\* C16: after any readings the series of a Counter observer is the sum of
\* the rises of the valid values, each measured from the valid value before
\* it (0 before the first), a fall adding nothing but becoming the value
\* the next rise is measured from; invalid readings change neither the
\* series nor that value.
C16_CounterIsSumOfRises ==
    obs.kind = "Counter" =>
        /\ obs._value_metric = SumOfRises(ValidValues, 1)
        /\ obs._old_value = IF ValidValues = <<>> THEN 0
                            ELSE ValidValues[Len(ValidValues)]

\* 8, an invalid reading, then 3 and 6: the series is 8 + 0 + 3
C16_Witness ==
    /\ obs.kind = "Counter"
    /\ Len(fed) = 4
    /\ fed[1] = [valid |-> TRUE, value |-> 8]
    /\ ~fed[2].valid
    /\ fed[3] = [valid |-> TRUE, value |-> 3]
    /\ fed[4] = [valid |-> TRUE, value |-> 6]
    /\ obs._value_metric = 11
    /\ obs._old_value = 6


-----------------------------------------------------------------------------
(* PrometheusWatcher: sensors, the factory, the series pairs *)

\* a sensor object: the watcher whose SensorSet it is made for, its name and
\* its ordinal among the sensors created
SensorId(w, name, k) == <<w, name, k>>

\* What the factory argument answers for a sensor is carried by the sensor
\* (as a factory reads it from the sensor's name or description): None, or
\* the class of the value series.
FactoryKinds == MetricTypes \cup {"None"}
\* the answers tried for the sensors of each name
FactoryKindsOf(w, name) ==
    CASE w = "w1" /\ name = "s" -> FactoryKinds
      [] w = "w1" /\ name = "t" -> {"None", "Gauge"}
      [] OTHER -> {"Gauge", "Summary"}
WatchedStatuses == {"NOMINAL", "UNKNOWN"}
WatchedReadings == {[value |-> NumValue(3), status |-> st, timestamp |-> 1] :
                        st \in WatchedStatuses}
\* a sensor is made with status UNKNOWN
NewReading == [value |-> NumValue(3), status |-> "UNKNOWN", timestamp |-> 1]
WatchedSensor(name, kind) == [name |-> name, kind |-> kind, reading |-> NewReading]

\* _dummy_factory's answer, and a factory's answer None
NoInfo == [given |-> FALSE, class_ |-> "", name |-> "", labels |-> <<>>]

\* the factory argument: a PrometheusInfo (class_, name, labels) or None;
\* sensors of one class share a metric name and differ in their label
_factory(sensor) ==
    IF sensor.kind = "None" THEN NoInfo
    ELSE [given |-> TRUE, class_ |-> sensor.kind, name |-> "katcp_" \o sensor.kind,
          labels |-> <<sensor.name>>]

\* an entry of self._observers
NoneEntry == [isNone |-> TRUE, id |-> <<>>]
ObserverEntry(id) == [isNone |-> FALSE, id |-> id]

\* The state the watchers' methods work on, as one record; raised is the
\* exception on its way out of the running operation.
Watch == [watched |-> watched, callbacks |-> callbacks, objects |-> objects,
          _observers |-> _observers, observers |-> observers, _metrics |-> _metrics,
          constructions |-> constructions, roots |-> roots, children |-> children,
          raised |-> ""]

\* value_metric.labels(*label_values) and status_metric.labels(*label_values):
\* the label instance of the pair for these label values, made if there is none
labels(st, metric, label_values, id) ==
    IF <<metric, label_values>> \in DOMAIN st.roots THEN st
    ELSE [st EXCEPT !.roots = Put(@, <<metric, label_values>>, id),
                    !.children = Put(@, id, [value |-> NewMetric(st._metrics[metric]),
                                             status |-> 0])]

\* PrometheusObserver(sensor, value_metric, status_metric, label_values): the
\* observer takes the sensor's id; its label instance is children[child]
PrometheusObserver(st, id, metric, label_values) ==
    LET st1 == labels(st, metric, label_values, id)
    IN  [st1 EXCEPT !.observers =
            Put(@, id, [core |-> NewObserver(st._metrics[metric]),
                        metric |-> metric,
                        label_values |-> label_values,
                        child |-> st1.roots[<<metric, label_values>>]])]

\* observer(sensor, reading): __call__ on the observer's label instance
Call(st, id, reading) ==
    LET o == st.observers[id]
        c == st.children[o.child]
        r == __call__([o.core EXCEPT !._value_metric = c.value,
                                     !._status_metric = c.status], reading)
    IN  [st EXCEPT !.observers[id].core = r.obs,
                   !.children[o.child] = [value |-> r.obs._value_metric,
                                          status |-> r.obs._status_metric],
                   !.raised = IF r.raised THEN "TypeError" ELSE @]

\* observer.close(): detach, then remove the label values from the status
\* and the value series.  Removing label values the series does not hold
\* raises KeyError or is ignored, depending on the prometheus_client release
\* (strict).
Observer_close(st, id, strict) ==
    LET o == st.observers[id]
        key == <<o.metric, o.label_values>>
    IN  IF key \in DOMAIN st.roots
        THEN [st EXCEPT !.observers[id].core = close(@),
                        !.roots = Pop(@, key)]
        ELSE [st EXCEPT !.observers[id].core = close(@),
                        !.raised = IF strict THEN "KeyError" ELSE @]

-----------------------------------------------------------------------------
(* PrometheusWatcher: methods *)

\* _make_observer that constructs the series pair without looking in _metrics
_make_observer_NoCache(st, w, id) ==
    LET sensor == st.objects[id]
        info == _factory(sensor)
    IN  IF ~info.given THEN [st |-> st, observer |-> NoneEntry]
        ELSE LET st1 == [st EXCEPT !._metrics = Put(@, info.name, info.class_),
                                   !.constructions[info.name] = @ + 1]
                 label_values == <<w>> \o info.labels
                 st2 == PrometheusObserver(st1, id, info.name, label_values)
             IN  [st |-> Call(st2, id, sensor.reading), observer |-> ObserverEntry(id)]

\* PrometheusWatcher._make_observer: the state afterwards and the result
_make_observer(st, w, id) ==
    LET sensor == st.objects[id]
        info == _factory(sensor)
    IN  IF ~info.given THEN [st |-> st, observer |-> NoneEntry]
        ELSE LET st1 == IF info.name \in DOMAIN st._metrics THEN st
                        ELSE [st EXCEPT !._metrics = Put(@, info.name, info.class_),
                                        !.constructions[info.name] = @ + 1]
                 label_values == <<w>> \o info.labels
                 st2 == PrometheusObserver(st1, id, info.name, label_values)
             IN  [st |-> Call(st2, id, sensor.reading), observer |-> ObserverEntry(id)]

\* _added that records nothing for a sensor the factory declines
_added_SkipsDeclined(st, w, id, strict) ==
    LET name == st.objects[id].name
        old_observer == IF name \in DOMAIN st._observers[w]
                        THEN st._observers[w][name] ELSE NoneEntry
        st1 == IF ~old_observer.isNone
               THEN Observer_close(st, old_observer.id, strict) ELSE st
    IN  IF st1.raised # "" THEN st1
        ELSE LET made == _make_observer(st1, w, id)
             IN  IF made.st.raised # "" THEN made.st
                 ELSE IF made.observer.isNone
                      THEN [made.st EXCEPT !._observers[w] = Pop(@, name)]
                      ELSE [made.st EXCEPT !._observers[w] = Put(@, name, made.observer)]

\* PrometheusWatcher._added
_added(st, w, id, strict) ==
    LET name == st.objects[id].name
        old_observer == IF name \in DOMAIN st._observers[w]
                        THEN st._observers[w][name] ELSE NoneEntry
        st1 == IF ~old_observer.isNone
               THEN Observer_close(st, old_observer.id, strict) ELSE st
    IN  IF st1.raised # "" THEN st1
        ELSE LET made == _make_observer(st1, w, id)
             IN  IF made.st.raised # "" THEN made.st
                 ELSE [made.st EXCEPT !._observers[w] = Put(@, name, made.observer)]

\* PrometheusWatcher._removed
_removed(st, w, name, strict) ==
    LET old_observer == IF name \in DOMAIN st._observers[w]
                        THEN st._observers[w][name] ELSE NoneEntry
        st1 == [st EXCEPT !._observers[w] = Pop(@, name)]
    IN  IF ~old_observer.isNone
        THEN Observer_close(st1, old_observer.id, strict) ELSE st1

\* the orders in which a dict of these keys can be iterated
Orders(keys) == {o \in [1 .. Cardinality(keys) -> keys] : Range(o) = keys}

\* the loop of PrometheusWatcher.__init__ over self.sensors.values()
RECURSIVE AddedLoop(_, _, _, _)
AddedLoop(st, w, order, i) ==
    IF i > Len(order) \/ st.raised # "" THEN st
    ELSE AddedLoop(_added(st, w, st.watched[w][order[i]], FALSE), w, order, i + 1)

\* PrometheusWatcher.__init__ (labels are the watcher's name, metrics is the
\* class-level dictionary)
PrometheusWatcher(st, w, order) ==
    LET st1 == AddedLoop(st, w, order, 1)
    IN  IF st1.raised # "" THEN st1
        ELSE [st1 EXCEPT !.callbacks[w] = [add |-> TRUE, remove |-> TRUE]]

\* the loop of PrometheusWatcher.close over self._observers.values()
RECURSIVE CloseObservers(_, _, _, _, _)
CloseObservers(st, w, order, i, strict) ==
    IF i > Len(order) \/ st.raised # "" THEN st
    ELSE LET observer == st._observers[w][order[i]]
         IN  CloseObservers(IF observer.isNone THEN st
                            ELSE Observer_close(st, observer.id, strict),
                            w, order, i + 1, strict)

\* PrometheusWatcher.close; removing a callback the SensorSet does not hold
\* raises ValueError, which is passed over
PrometheusWatcher_close(st, w, order, strict) ==
    LET st1 == CloseObservers(st, w, order, 1, strict)
    IN  IF st1.raised # "" THEN st1
        ELSE [st1 EXCEPT !._observers[w] = EmptyMap,
                         !.callbacks[w] = [add |-> FALSE, remove |-> FALSE]]

-----------------------------------------------------------------------------
(* aiokatcp.SensorSet and aiokatcp.Sensor, as the watchers use them *)

\* sensors.add(sensor): the sensor takes the place of a sensor of its name,
\* then the add callbacks are called
SensorSet_add(st, w, id, sensor, strict) ==
    LET st1 == [st EXCEPT !.objects = Put(@, id, sensor),
                          !.watched[w] = Put(@, sensor.name, id)]
    IN  IF st.callbacks[w].add THEN _added(st1, w, id, strict) ELSE st1

\* sensors.remove(sensor): the remove callbacks are called
SensorSet_remove(st, w, name, strict) ==
    LET st1 == [st EXCEPT !.watched[w] = Pop(@, name)]
    IN  IF st.callbacks[w].remove THEN _removed(st1, w, name, strict) ELSE st1

\* sensor.set_value(...): the attached observer is called with the reading
set_value(st, id, reading) ==
    LET st1 == IF id \in DOMAIN st.objects
               THEN [st EXCEPT !.objects[id].reading = reading] ELSE st
    IN  IF id \in DOMAIN st.observers /\ st.observers[id].core.attached
        THEN Call(st1, id, reading) ELSE st1

\* Sensors no SensorSet holds, observers neither attached nor in a map and
\* label instances nothing refers to are dropped.
WatchCollect(st) ==
    LET inMaps == {e.id : e \in {x \in UNION {Range(st._observers[w]) : w \in Watchers} :
                                     ~x.isNone}}
        keepO == {id \in DOMAIN st.observers :
                     st.observers[id].core.attached \/ id \in inMaps}
        keepC == Range(st.roots) \cup {st.observers[id].child : id \in keepO}
        keepS == UNION {Range(st.watched[w]) : w \in Watchers}
    IN  [st EXCEPT !.objects = [id \in keepS |-> st.objects[id]],
                   !.observers = [id \in keepO |-> st.observers[id]],
                   !.children = [id \in keepC |-> st.children[id]]]

-----------------------------------------------------------------------------
(* The watchers driven by the owners of their SensorSets *)

\* assign the methods' result to the state
WatchBecomes(st) ==
    LET c == WatchCollect(st)
    IN  /\ watched' = c.watched
        /\ callbacks' = c.callbacks
        /\ objects' = c.objects
        /\ _observers' = c._observers
        /\ observers' = c.observers
        /\ _metrics' = c._metrics
        /\ constructions' = c.constructions
        /\ roots' = c.roots
        /\ children' = c.children
        /\ raised' = c.raised

\* PrometheusWatcher(sensors, labels, factory) over the SensorSet as it is
WatcherConstructed(w, order) ==
    /\ phase[w] = "unbuilt"
    /\ LET st == PrometheusWatcher(Watch, w, order)
       IN  /\ WatchBecomes(st)
           /\ phase' = [phase EXCEPT ![w] = IF st.raised # "" THEN "failed" ELSE "open"]
    /\ UNCHANGED created
    /\ UNCHANGED <<mirrorVars, obsVars>>

\* a new sensor is added to a SensorSet, replacing a sensor of its name
RegistryAdd(w, name, kind, strict) ==
    /\ created < MaxSensors
    /\ created' = created + 1
    /\ WatchBecomes(SensorSet_add(Watch, w, SensorId(w, name, created + 1),
                                  WatchedSensor(name, kind), strict))
    /\ UNCHANGED phase
    /\ UNCHANGED <<mirrorVars, obsVars>>

\* a sensor is removed from a SensorSet
RegistryRemove(w, name, strict) ==
    /\ name \in DOMAIN watched[w]
    /\ WatchBecomes(SensorSet_remove(Watch, w, name, strict))
    /\ UNCHANGED <<phase, created>>
    /\ UNCHANGED <<mirrorVars, obsVars>>

\* the value of a sensor is set, whether or not a SensorSet still holds it
\* (setting a sensor that no SensorSet holds and no observer is attached to
\* calls nothing)
SensorSetValue(w, name, k, reading) ==
    /\ k <= created
    /\ SensorId(w, name, k) \in (DOMAIN objects) \cup (DOMAIN observers)
    /\ WatchBecomes(set_value(Watch, SensorId(w, name, k), reading))
    /\ UNCHANGED <<phase, created>>
    /\ UNCHANGED <<mirrorVars, obsVars>>

\* watcher.close(), a first or a further time
WatcherClosed(w, order, strict) ==
    /\ phase[w] \in {"open", "closed"}
    /\ LET st == PrometheusWatcher_close(Watch, w, order, strict)
       IN  /\ WatchBecomes(st)
           /\ phase' = [phase EXCEPT ![w] = "closed"]
    /\ UNCHANGED created
    /\ UNCHANGED <<mirrorVars, obsVars>>

WatcherSpecInit ==
    /\ WatcherInit
    /\ MirrorInit
    /\ cfg = [renames |-> NoRenames, close_action |-> "REMOVE", filter |-> NoFilter,
              rewrite_gui_urls |-> FALSE]
    /\ obs = NoObserver
    /\ prev = <<>>
    /\ fed = <<>>
    /\ applied = <<>>

WatcherNext ==
    \/ \E w \in Watchers : \E order \in Orders(DOMAIN watched[w]) :
          WatcherConstructed(w, order)
    \/ \E w \in Watchers : \E name \in WatchedNames(w) :
          \E kind \in FactoryKindsOf(w, name), strict \in BOOLEAN :
              RegistryAdd(w, name, kind, strict)
    \/ \E w \in Watchers : \E name \in WatchedNames(w), strict \in BOOLEAN :
          RegistryRemove(w, name, strict)
    \/ \E w \in Watchers : \E name \in WatchedNames(w), k \in 1 .. MaxSensors,
          reading \in WatchedReadings : SensorSetValue(w, name, k, reading)
    \/ \E w \in Watchers : \E order \in Orders(DOMAIN _observers[w]), strict \in BOOLEAN :
          WatcherClosed(w, order, strict)

SpecWatcher == WatcherSpecInit /\ [][WatcherNext]_vars

-----------------------------------------------------------------------------
(* Claims about the metric watchers *)

\* the observers that are attached to a sensor
Attached == {id \in DOMAIN observers : observers[id].core.attached}

\* the observers a watcher records in its map
Recorded(w) == {e.id : e \in {x \in Range(_observers[w]) : ~x.isNone}}

\* the observers a watcher records that are attached and hold their label values
LiveObservers(w) ==
    {id \in Recorded(w) : observers[id].core.attached /\ observers[id].core.labelled}

\* C11: whatever sensors were added, replaced and removed and whichever
\* watchers were closed, the series pair of a metric name was constructed at
\* most once, the cache holds an entry for exactly the names whose pair was
\* ever constructed (an entry is never removed), every attached observer
\* uses the cached pair of its metric name with a label instance the pair
\* holds, and observers of different sensors have different label instances.
C11_PairConstructedOnce ==
    /\ \A m \in MetricNames :
          /\ constructions[m] <= 1
          /\ constructions[m] = 1 <=> m \in DOMAIN _metrics
    /\ \A id \in Attached :
          LET o == observers[id]
          IN  /\ o.metric \in DOMAIN _metrics
              /\ o.core.kind = _metrics[o.metric]
              /\ <<o.metric, o.label_values>> \in DOMAIN roots
              /\ roots[<<o.metric, o.label_values>>] = o.child
    /\ \A id1, id2 \in Attached :
          <<id1[1], id1[2]>> # <<id2[1], id2[2]>> =>
              observers[id1].child # observers[id2].child

\* both watchers record an attached Gauge observer: one pair, constructed
\* once, with two label instances
C11_Witness ==
    /\ constructions["katcp_Gauge"] = 1
    /\ \E id1 \in LiveObservers("w1"), id2 \in LiveObservers("w2") :
          /\ observers[id1].metric = "katcp_Gauge"
          /\ observers[id2].metric = "katcp_Gauge"
          /\ observers[id1].child # observers[id2].child
          /\ {observers[id1].child, observers[id2].child} \subseteq Range(roots)

\* the sensor of this name in the watcher's SensorSet
Present(w, name) == objects[watched[w][name]]

\* the factory returned a descriptor for the sensor, not None
Described(sensor) == sensor.kind # "None"

\* an observer construction for a sensor of this name failed: its observer
\* is attached to the sensor without being recorded
ConstructionFailed(w, name) ==
    \E id \in Attached : id[1] = w /\ id[2] = name /\ id \notin Recorded(w)

\* the names of a watcher's SensorSet for which no construction failed
Sound(w) == {n \in WatchedNames(w) : ~ConstructionFailed(w, n)}

Held(w) == {key \in DOMAIN roots : key[2][1] = w}

\* the sensors of a watcher that are in its SensorSet or have an observer
SensorsOf(w) == {id \in (DOMAIN objects) \cup (DOMAIN observers) : id[1] = w}

\* the operation leaves the observers, the maps and the series as they are
\* and raises nothing
Untouching(st) ==
    /\ st.raised = ""
    /\ st.observers = observers
    /\ st._observers = _observers
    /\ st._metrics = _metrics
    /\ st.roots = roots
    /\ st.children = children

\* no add, replacement, removal or value update in the SensorSet of the
\* watcher creates an observer or changes a metric
Quiet(w) ==
    /\ \A name \in WatchedNames(w) :
          \A kind \in FactoryKindsOf(w, name), strict \in BOOLEAN :
              Untouching(SensorSet_add(Watch, w, SensorId(w, name, created + 1),
                                       WatchedSensor(name, kind), strict))
    /\ \A name \in DOMAIN watched[w] : \A strict \in BOOLEAN :
          Untouching(SensorSet_remove(Watch, w, name, strict))
    /\ \A id \in SensorsOf(w) : \A reading \in WatchedReadings :
          Untouching(set_value(Watch, id, reading))

\* a further close() raises nothing and changes nothing
CloseAgainIsNoOp(w) ==
    \A order \in Orders(DOMAIN _observers[w]) : \A strict \in BOOLEAN :
        LET st == PrometheusWatcher_close(Watch, w, order, strict)
        IN  Untouching(st) /\ st.callbacks = callbacks

\* what the claim says of a watcher after close()
Released(w) ==
    /\ _observers[w] = EmptyMap
    /\ \A id \in Attached : id[1] # w
    /\ Held(w) = {}
    /\ callbacks[w] = [add |-> FALSE, remove |-> FALSE]
    /\ Quiet(w)
    /\ CloseAgainIsNoOp(w)

\* C13: after close() the observer map of the watcher is empty, none of its
\* observers is attached to a sensor of its SensorSet, the series pairs hold
\* no label instance of it and the SensorSet holds neither callback, so that
\* no later add, replacement, removal or value update in the SensorSet
\* creates an observer or changes a metric; a further close() raises nothing
\* and changes nothing.
C13_CloseReleasesAll ==
    \A w \in Watchers : phase[w] = "closed" => Released(w)

\* the same of a watcher none of whose observer constructions failed
CloseReleasesAllWhereSound ==
    \A w \in Watchers :
        (phase[w] = "closed" /\ Sound(w) = WatchedNames(w)) => Released(w)

\* the factory asks for a series kind other than gauge, counter or histogram
Unsupported(sensor) ==
    Described(sensor) /\ sensor.kind \notin {"Gauge", "Counter", "Histogram"}

\* the step adds the sensor id to the SensorSet of a watcher whose add
\* handler is subscribed, and the factory asks for an unsupported kind
AddsUnsupported(w, id) ==
    /\ created' = created + 1
    /\ callbacks[w].add
    /\ id \in DOMAIN objects'
    /\ Unsupported(objects'[id])

\* C14: when a sensor for which the factory asks for a series kind other
\* than gauge, counter or histogram is added, the add handler raises, no
\* observer of the sensor is recorded in the observer map, and no observer
\* of the sensor is attached to it afterwards.
C14_UnsupportedKindAborts ==
    [][\A w \in Watchers : \A name \in WatchedNames(w) :
          LET id == SensorId(w, name, created + 1)
          IN  AddsUnsupported(w, id) =>
                 /\ raised' # ""
                 /\ id \notin Recorded(w)'
                 /\ id \notin Attached']_vars

\* the part of C14 the code keeps: the add handler raises and records no
\* observer of the sensor
UnsupportedKindRaises ==
    [][\A w \in Watchers : \A name \in WatchedNames(w) :
          LET id == SensorId(w, name, created + 1)
          IN  AddsUnsupported(w, id) =>
                 /\ raised' # ""
                 /\ id \notin Recorded(w)']_vars

\* the step adds the sensor id under a name for which the watcher, whose add
\* handler is subscribed, records an observer
Replaces(w, name, id) ==
    /\ created' = created + 1
    /\ callbacks[w].add
    /\ name \in DOMAIN _observers[w]
    /\ ~_observers[w][name].isNone
    /\ id \in DOMAIN objects'

\* at most one observer is attached to the sensors of a name of a watcher
OnePerName(w, name) ==
    \A id1, id2 \in Attached :
        (id1[1] = w /\ id2[1] = w /\ id1[2] = name /\ id2[2] = name) => id1 = id2

\* setting the value of a sensor of this name that its SensorSet no longer
\* holds calls no observer
OldSensorsSilent(w, name) ==
    \A id \in {SensorId(w, name, k) : k \in 1..created} \ (DOMAIN objects) :
        \A reading \in WatchedReadings : Untouching(set_value(Watch, id, reading))

\* what the claim says of the add handler for a replacing sensor: the old
\* observer is detached and its label instance released; the new observer,
\* if the factory describes the sensor, is recorded and attached, has a
\* label instance of its own that the pair holds, and that instance's status
\* series shows the status of the sensor's reading
ClosedBeforeCreated(w, name, id) ==
    LET old == _observers[w][name].id
    IN  /\ old \notin Attached'
        /\ observers[old].child \notin Range(roots')
        /\ Described(objects'[id]) =>
              /\ id \in Recorded(w)'
              /\ id \in Attached'
              /\ observers'[id].child = id
              /\ id \in Range(roots')
              /\ children'[id].status = StatusCode[objects'[id].reading.status]

\* C17: when a sensor is added under a name that has an observer, the old
\* observer is closed before the new one is created and called with the new
\* sensor's reading; at any time at most one observer is attached to the
\* sensors of a name, and setting the value of a replaced sensor changes no
\* metric.
C17_ReplacementClosesFirst ==
    [][\A w \in Watchers : \A name \in WatchedNames(w) :
          /\ Replaces(w, name, SensorId(w, name, created + 1)) =>
                 ClosedBeforeCreated(w, name, SensorId(w, name, created + 1))
          /\ OnePerName(w, name)'
          /\ OldSensorsSilent(w, name)']_vars

\* the same where no observer construction has failed: for the names of a
\* constructed watcher for which no construction has failed, that of the
\* replacing sensor's observer included
ReplacementClosesFirstWhereSound ==
    [][\A w \in Watchers : \A name \in WatchedNames(w) :
          (phase'[w] # "failed" /\ ~ConstructionFailed(w, name)') =>
              /\ Replaces(w, name, SensorId(w, name, created + 1)) =>
                     ClosedBeforeCreated(w, name, SensorId(w, name, created + 1))
              /\ OnePerName(w, name)'
              /\ OldSensorsSilent(w, name)']_vars

\* the map of the watcher has an entry for the name exactly if its SensorSet
\* has a sensor of the name, and the entry of a sensor the factory declined
\* is None
EntryIffSensor(w, name) ==
    /\ name \in DOMAIN _observers[w] <=> name \in DOMAIN watched[w]
    /\ (name \in DOMAIN watched[w] /\ ~Described(Present(w, name))) =>
           (name \in DOMAIN _observers[w] /\ _observers[w][name].isNone)

\* C18 as claimed: while a watcher is constructed and not closed, its map
\* has an entry for a name if and only if its SensorSet has a sensor of
\* that name, and the entry is None when the factory declined the sensor.
C18_EntryIffSensorExists ==
    \A w \in Watchers :
        phase[w] = "open" => \A name \in WatchedNames(w) : EntryIffSensor(w, name)

\* the same for the names for which no observer construction has failed
EntryIffSensorWhereSound ==
    \A w \in Watchers :
        phase[w] = "open" => \A name \in Sound(w) : EntryIffSensor(w, name)

====
